---- MODULE Spec2Model ----
(***************************************************************************)
(* Model of src/core/data_processor.py (class DataProcessor).              *)
(*                                                                         *)
(* Tables (pandas DataFrames) are sequences of row records.  A cell that   *)
(* may be missing (NaN / None) is an option record: Null or Some(v).       *)
(* Names that end up in the 'Resource/ PROJET' text column are sequences   *)
(* of one-character strings, so that the f"    {project}" formatting,      *)
(* str.startswith and str.strip are modelled by what they do to the text.  *)
(***************************************************************************)
EXTENDS Integers, Sequences, FiniteSets, TLC

(***************************************************************************)
(* Bounds of the model.                                                    *)
(***************************************************************************)
MaxPivotRows == 2

MaxSummaryRows == 3

MaxDeploymentRows == 2

MaxLookupRows == 3

MaxHoursRows == 2

(***************************************************************************)
(* Optional cells.                                                         *)
(***************************************************************************)
Null == [null |-> TRUE]

Some(x) == [null |-> FALSE, v |-> x]

(***************************************************************************)
(* Text: sequences of characters, compared as Python compares str.         *)
(***************************************************************************)
SP == " "

INDENT == <<SP, SP, SP, SP>>

Ord(c) == CASE c = " " -> 32 [] c = "a" -> 97 [] c = "b" -> 98
            [] c = "p" -> 112 [] c = "q" -> 113

RECURSIVE StrLess(_, _)
StrLess(s, t) ==
    IF t = <<>> THEN FALSE
    ELSE IF s = <<>> THEN TRUE
    ELSE IF Ord(Head(s)) # Ord(Head(t)) THEN Ord(Head(s)) < Ord(Head(t))
    ELSE StrLess(Tail(s), Tail(t))

StartsWith(s, prefix) ==
    /\ Len(s) >= Len(prefix)
    /\ SubSeq(s, 1, Len(prefix)) = prefix

RECURSIVE LStrip(_)
LStrip(s) == IF s # <<>> /\ Head(s) = SP THEN LStrip(Tail(s)) ELSE s

RECURSIVE RStrip(_)
RStrip(s) ==
    IF s # <<>> /\ s[Len(s)] = SP THEN RStrip(SubSeq(s, 1, Len(s) - 1)) ELSE s

Strip(s) == RStrip(LStrip(s))

RECURSIVE SumSeq(_)
SumSeq(s) == IF s = <<>> THEN 0 ELSE Head(s) + SumSeq(Tail(s))

SeqsUpTo(S, n) == UNION {[1..k -> S] : k \in 0..n}

(***************************************************************************)
(* Theoretical Charge Resolver.  A raw label is a string; "" is falsy.     *)
(***************************************************************************)
ConnectionMapping ==
    [k \in {"Connexion Recette int", "Connexion Pré-produ", "Connexion Développe",
            "Connexion Recette", "Connexion Production"} |-> "Connexion EDI"]

PhaseMapping ==
    ("Connexion Recette int" :> "Recette interne")
    @@ ("Connexion Pré-produ" :> "Pré-production")
    @@ ("Connexion Développe" :> "Développement")
    @@ ("Connexion Recette" :> "Recette utilisateur")
    @@ ("Connexion Production" :> "En production (VSR)")

normalize_connection_level(connection_level) ==
    IF connection_level = "" THEN Null
    ELSE IF connection_level \in DOMAIN ConnectionMapping
         THEN Some(ConnectionMapping[connection_level])
         ELSE Some(connection_level)

normalize_project_phase(project_phase) ==
    IF project_phase = "" THEN Null
    ELSE IF project_phase \in DOMAIN PhaseMapping
         THEN Some(PhaseMapping[project_phase])
         ELSE Some(project_phase)

\* config.rules.get_theoretical_charge: the injected rule table, a function
\* from (canonical connection level, canonical phase) to a number; a key the
\* table does not hold gives the "not found" signal, None.
get_theoretical_charge(rule_table, normalized_connection, normalized_phase) ==
    IF normalized_connection.null \/ normalized_phase.null THEN Null
    ELSE IF <<normalized_connection.v, normalized_phase.v>> \in DOMAIN rule_table
         THEN Some(rule_table[<<normalized_connection.v, normalized_phase.v>>])
         ELSE Null

calculate_theoretical_charge(rule_table, connection_level, project_phase) ==
    get_theoretical_charge(rule_table,
                           normalize_connection_level(connection_level),
                           normalize_project_phase(project_phase))

(***************************************************************************)
(* Hierarchical Summary Builder: format_resource_summary.                  *)
(***************************************************************************)
DictGet(dict, key, default) == IF key \in DOMAIN dict THEN dict[key] ELSE default

\* Sort key of pivot_df.sort_values(['Ressource', 'Projet']).
PivotLess(a, b) ==
    \/ StrLess(a.Ressource, b.Ressource)
    \/ a.Ressource = b.Ressource /\ StrLess(a.Projet, b.Projet)

\* DataFrame.sort_values on several columns is a stable sort (lexsort): a row
\* goes after the rows already placed that do not sort after it.
RECURSIVE InsertPivotRow(_, _)
InsertPivotRow(r, sorted) ==
    IF sorted = <<>> THEN <<r>>
    ELSE IF PivotLess(r, Head(sorted)) THEN <<r>> \o sorted
    ELSE <<Head(sorted)>> \o InsertPivotRow(r, Tail(sorted))

RECURSIVE SortPivot(_)
SortPivot(rows) ==
    IF rows = <<>> THEN <<>>
    ELSE InsertPivotRow(rows[Len(rows)], SortPivot(SubSeq(rows, 1, Len(rows) - 1)))

\* Line 310: sort_values returns a new table, to which the local name
\* pivot_df is rebound; the caller's table is left as it was.
sort_values_pivot(mem) ==
    [caller |-> mem.caller, local |-> SortPivot(mem.caller)]

\* An empty row of result_df: every column is NaN until it is assigned.
BlankRow ==
    [RP |-> Null, ChargeJH |-> Null, SommeChargeJH |-> Null,
     NiveauDeConnexion |-> Null, PhaseDuProjet |-> Null,
     ChargeTheorique |-> Null, Ecart |-> Null,
     Montant |-> Null, DerniereNote |-> Null, Duree |-> Null]

\* f"    {project}"
IndentProject(project) == INDENT \o project

\* Theoretical charge of a project (lines 360-366): computed only when both
\* looked-up labels are truthy.
TheoreticalChargeOf(project, connection_dict, phase_dict, rule_table) ==
    LET connection_level == DictGet(connection_dict, project, "")
        project_phase == DictGet(phase_dict, project, "")
    IN  IF connection_level # "" /\ project_phase # ""
        THEN calculate_theoretical_charge(rule_table, connection_level, project_phase)
        ELSE Null

\* Lines 347-349: the resource row.
ResourceRow(sorted, resource) ==
    [BlankRow EXCEPT
        !.RP = Some(resource),
        !.SommeChargeJH =
            Some(SumSeq([i \in 1..Len(sorted) |->
                    IF sorted[i].Ressource = resource THEN sorted[i].ChargeJH ELSE 0]))]

\* Lines 377-381 with the ecart written whether or not the charge resolved.
ProjectRowEcartZero(row, connection_dict, phase_dict, rule_table) ==
    LET theoretical_charge ==
            TheoreticalChargeOf(row.Projet, connection_dict, phase_dict, rule_table)
        filled ==
            [BlankRow EXCEPT
                !.RP = Some(IndentProject(row.Projet)),
                !.ChargeJH = Some(row.ChargeJH),
                !.NiveauDeConnexion = Some(DictGet(connection_dict, row.Projet, "")),
                !.PhaseDuProjet = Some(DictGet(phase_dict, row.Projet, "")),
                !.Montant = row.Montant,
                !.DerniereNote = row.DerniereNote,
                !.Duree = row.Duree]
    IN  IF theoretical_charge.null
        THEN [filled EXCEPT !.ChargeTheorique = Some(0), !.Ecart = Some(0 - row.ChargeJH)]
        ELSE [filled EXCEPT
                !.ChargeTheorique = theoretical_charge,
                !.Ecart = Some(theoretical_charge.v - row.ChargeJH)]

\* Lines 359-381: the project row.
ProjectRow(row, connection_dict, phase_dict, rule_table) ==
    LET theoretical_charge ==
            TheoreticalChargeOf(row.Projet, connection_dict, phase_dict, rule_table)
        filled ==
            [BlankRow EXCEPT
                !.RP = Some(IndentProject(row.Projet)),
                !.ChargeJH = Some(row.ChargeJH),
                !.NiveauDeConnexion = Some(DictGet(connection_dict, row.Projet, "")),
                !.PhaseDuProjet = Some(DictGet(phase_dict, row.Projet, "")),
                !.Montant = row.Montant,
                !.DerniereNote = row.DerniereNote,
                !.Duree = row.Duree]
    IN  IF theoretical_charge.null
        THEN filled
        ELSE [filled EXCEPT
                !.ChargeTheorique = theoretical_charge,
                !.Ecart = Some(theoretical_charge.v - row.ChargeJH)]

\* Lines 312-334: the first pass, the ecarts of every resource that has a
\* resolved project (computed, never written to the output).
resource_ecarts(sorted, connection_dict, phase_dict, rule_table) ==
    LET tc(i) == TheoreticalChargeOf(sorted[i].Projet, connection_dict,
                                     phase_dict, rule_table)
    IN  [resource \in {sorted[i].Ressource : i \in {j \in 1..Len(sorted) : ~tc(j).null}} |->
            SumSeq([i \in 1..Len(sorted) |->
                IF sorted[i].Ressource = resource /\ ~tc(i).null
                THEN tc(i).v - sorted[i].ChargeJH ELSE 0])]

\* Lines 337-383: the second pass.  current_resource starts as None, so the
\* first row always opens a resource.
SecondPass(sorted, connection_dict, phase_dict, rule_table) ==
    LET loop[i \in 0..Len(sorted)] ==
            IF i = 0 THEN [current_resource |-> Null, result_df |-> <<>>]
            ELSE LET st == loop[i - 1]
                     row == sorted[i]
                     header ==
                        IF st.current_resource # Some(row.Ressource)
                        THEN <<ResourceRow(sorted, row.Ressource)>>
                        ELSE <<>>
                 IN  [current_resource |-> Some(row.Ressource),
                      result_df |-> st.result_df \o header
                            \o <<ProjectRow(row, connection_dict, phase_dict, rule_table)>>]
    IN  loop[Len(sorted)].result_df

\* The whole function: the returned table, and the caller's pivot table as
\* the call leaves it.
format_resource_summary(pivot, connection_dict, phase_dict, montant_dict, rule_table) ==
    LET mem == sort_values_pivot([caller |-> pivot])
    IN  [result_df |-> SecondPass(mem.local, connection_dict, phase_dict, rule_table),
         pivot_df |-> mem.caller]

(***************************************************************************)
(* Reverse Aggregator: create_theoretical_charge_by_resource_from_summary. *)
(***************************************************************************)
\* Line 412: str(cell) if pd.notna(cell) else "".
CellText(cell) == IF cell.null THEN <<>> ELSE cell.v

\* Line 415.
IsResourceText(resource_projet) ==
    ~StartsWith(resource_projet, INDENT) /\ Strip(resource_projet) # <<>>

\* Line 432, first conjunct.
IsProjectText(resource_projet) == StartsWith(resource_projet, INDENT)

\* Lines 418 and 441: sum of the charges that are not NaN and not 0.
TheoreticalSum(charges) ==
    SumSeq([i \in 1..Len(charges) |->
        IF ~charges[i].null /\ charges[i].v # 0 THEN charges[i].v ELSE 0])

\* Lines 417-424 and 440-447: the open resource, if any, becomes a result row.
Flush(st) ==
    IF st.current_resource.null THEN st.result_data
    ELSE Append(st.result_data,
                [Ressource |-> st.current_resource.v,
                 SommeChargeTheorique |-> TheoreticalSum(st.current_theoretical_charges),
                 NombreDeProjets |-> Len(st.current_projects)])

\* Lines 407-438 without lines 440-447: the last open resource is forgotten.
ResultDataNoFinalFlush(df) ==
    LET loop[i \in 0..Len(df)] ==
            IF i = 0
            THEN [current_resource |-> Null, current_projects |-> <<>>,
                  current_theoretical_charges |-> <<>>, result_data |-> <<>>]
            ELSE LET st == loop[i - 1]
                     resource_projet == CellText(df[i].RP)
                 IN  IF IsResourceText(resource_projet)
                     THEN [current_resource |-> Some(Strip(resource_projet)),
                           current_projects |-> <<>>,
                           current_theoretical_charges |-> <<>>,
                           result_data |-> Flush(st)]
                     ELSE IF IsProjectText(resource_projet) /\ ~st.current_resource.null
                     THEN [st EXCEPT
                            !.current_projects = Append(@, Strip(resource_projet)),
                            !.current_theoretical_charges = Append(@, df[i].ChargeTheorique)]
                     ELSE st
    IN  loop[Len(df)].result_data

\* Lines 407-447: the pass over the rows, then the flush of the last resource.
ResultData(df) ==
    LET loop[i \in 0..Len(df)] ==
            IF i = 0
            THEN [current_resource |-> Null, current_projects |-> <<>>,
                  current_theoretical_charges |-> <<>>, result_data |-> <<>>]
            ELSE LET st == loop[i - 1]
                     resource_projet == CellText(df[i].RP)
                 IN  IF IsResourceText(resource_projet)
                     THEN [current_resource |-> Some(Strip(resource_projet)),
                           current_projects |-> <<>>,
                           current_theoretical_charges |-> <<>>,
                           result_data |-> Flush(st)]
                     ELSE IF IsProjectText(resource_projet) /\ ~st.current_resource.null
                     THEN [st EXCEPT
                            !.current_projects = Append(@, Strip(resource_projet)),
                            !.current_theoretical_charges = Append(@, df[i].ChargeTheorique)]
                     ELSE st
    IN  Flush(loop[Len(df)])

\* Line 454: sort_values on one column, descending.  The order of rows with
\* equal sums is not fixed by the sort, so every descending order is possible.
SortedDescending(result_data) ==
    {[i \in 1..Len(result_data) |-> result_data[perm[i]]] :
        perm \in {q \in Permutations(1..Len(result_data)) :
                    \A i, j \in 1..Len(result_data) :
                        i < j => result_data[q[i]].SommeChargeTheorique
                                    >= result_data[q[j]].SommeChargeTheorique}}

\* The tables the function can return (lines 401-402 and 449-450: the empty
\* table for an empty input and for an input without resource rows).
create_theoretical_charge_by_resource_from_summary(resource_summary) ==
    IF resource_summary = <<>> THEN {<<>>}
    ELSE IF ResultData(resource_summary) = <<>> THEN {<<>>}
    ELSE SortedDescending(ResultData(resource_summary))

(***************************************************************************)
(* Year Summary Builder: create_projects_by_month_summary.                 *)
(* A table is a record of its column names and its rows; a row carries its *)
(* index label.  A date cell holds a raw value that parses as a date of    *)
(* some year, or does not parse.                                           *)
(***************************************************************************)
BadDate == [valid |-> FALSE, year |-> 0]

Date(y) == [valid |-> TRUE, year |-> y]

\* A cell set to '' by lines 219-220.
Blank == [null |-> FALSE, blank |-> TRUE]

\* Lines 152-159.
DefaultPhases ==
    {"Cadrage / Spécifications", "Recette interne", "Développement",
     "Recette utilisateur", "Non démarré (nouveau projet)", "Pré-production"}

\* Lines 151-161.
AllowedPhases(phases) ==
    IF phases.null THEN DefaultPhases
    ELSE IF Len(phases.v) = 0 THEN DefaultPhases
    ELSE {phases.v[i] : i \in 1..Len(phases.v)}

\* Lines 174-180: the assignment date, or the creation date where the
\* assignment date is missing and the creation date column exists.
DateEffective(columns, row) ==
    IF "Date de création" \in columns
       /\ row.DateAffectation.null /\ ~row.DateCreation.null
    THEN row.DateCreation
    ELSE row.DateAffectation

\* Line 189: pd.to_datetime(..., errors='coerce').
to_datetime(cell) ==
    IF cell.null THEN Null
    ELSE IF cell.v.valid THEN cell ELSE Null

\* Lines 170-196: the rows of an allowed phase with an effective date that
\* parses, each with its year.
DatedRows(df, phases) ==
    LET allowed(row) == row.PhaseDuProjet \in AllowedPhases(phases)
        present(row) == ~DateEffective(df.columns, row).null
        parsed(row) == ~to_datetime(DateEffective(df.columns, row)).null
        kept == SelectSeq(SelectSeq(SelectSeq(df.rows, allowed), present), parsed)
    IN  [i \in 1..Len(kept) |->
            [index |-> kept[i].index,
             Annee |-> Some(to_datetime(DateEffective(df.columns, kept[i])).v.year),
             NombreDeProjets |-> Null,
             NomDuProjet |-> kept[i].Nom,
             DerniereNote |-> kept[i].DerniereNote,
             effective_year |-> to_datetime(DateEffective(df.columns, kept[i])).v.year]]

\* Line 203: sort_values(['Année', 'Nom du projet']), a stable sort.
YearLess(a, b) ==
    \/ a.Annee.v < b.Annee.v
    \/ a.Annee.v = b.Annee.v /\ StrLess(a.NomDuProjet, b.NomDuProjet)

RECURSIVE InsertYearRow(_, _)
InsertYearRow(r, sorted) ==
    IF sorted = <<>> THEN <<r>>
    ELSE IF YearLess(r, Head(sorted)) THEN <<r>> \o sorted
    ELSE <<Head(sorted)>> \o InsertYearRow(r, Tail(sorted))

RECURSIVE SortYear(_)
SortYear(rows) ==
    IF rows = <<>> THEN <<>>
    ELSE InsertYearRow(rows[Len(rows)], SortYear(SubSeq(rows, 1, Len(rows) - 1)))

\* Line 206: groupby('Année').transform('count').
AddCounts(rows) ==
    [i \in 1..Len(rows) |->
        [rows[i] EXCEPT !.NombreDeProjets =
            Some(Cardinality({j \in 1..Len(rows) : rows[j].Annee = rows[i].Annee}))]]

\* Lines 209-211 with the mask Année == 2024 only.
ClearNames2024Only(rows) ==
    [i \in 1..Len(rows) |->
        IF rows[i].Annee.v \in {2024}
        THEN [rows[i] EXCEPT !.NomDuProjet = <<>>, !.DerniereNote = Some("")]
        ELSE rows[i]]

\* Lines 209-211: names and notes of 2024 and 2025 become ''.
ClearNames(rows) ==
    [i \in 1..Len(rows) |->
        IF rows[i].Annee.v \in {2024, 2025}
        THEN [rows[i] EXCEPT !.NomDuProjet = <<>>, !.DerniereNote = Some("")]
        ELSE rows[i]]

\* Line 214: Series.unique(), the years in order of first appearance.
RECURSIVE UniqueYears(_)
UniqueYears(rows) ==
    IF rows = <<>> THEN <<>>
    ELSE LET before == UniqueYears(SubSeq(rows, 1, Len(rows) - 1))
             y == rows[Len(rows)].Annee.v
         IN  IF \E k \in 1..Len(before) : before[k] = y THEN before
             ELSE Append(before, y)

\* Lines 215-220 for one year: the index labels of the rows that still carry
\* the year, the first of them left out, select by label the rows whose year
\* and count become ''.
ClearYear(rows, year) ==
    LET year_positions == {i \in 1..Len(rows) : rows[i].Annee = Some(year)}
        first == CHOOSE i \in year_positions : \A j \in year_positions : i <= j
        later_labels == {rows[i].index : i \in year_positions \ {first}}
    IN  IF Cardinality(year_positions) > 1
        THEN [i \in 1..Len(rows) |->
                IF rows[i].index \in later_labels
                THEN [rows[i] EXCEPT !.Annee = Blank, !.NombreDeProjets = Blank]
                ELSE rows[i]]
        ELSE rows

\* Lines 214-220: the loop over the years.
RECURSIVE ClearGroups(_, _)
ClearGroups(rows, years) ==
    IF years = <<>> THEN rows
    ELSE ClearGroups(ClearYear(rows, Head(years)), Tail(years))

\* The value returned by lines 148, 186 and 193.
EmptySummary == [raised |-> "", rows |-> <<>>]

\* The whole function: the exception raised, if any, and the table returned.
create_projects_by_month_summary(df, phases) ==
    IF "Date d'affectation" \notin df.columns THEN EmptySummary
    ELSE IF DatedRows(df, phases) = <<>> THEN EmptySummary
    ELSE IF "Dernière Note" \notin df.columns
         THEN [raised |-> "KeyError", rows |-> <<>>]
    ELSE LET sorted == ClearNames(AddCounts(SortYear(DatedRows(df, phases))))
         IN  [raised |-> "", rows |-> ClearGroups(sorted, UniqueYears(sorted))]

(***************************************************************************)
(* Lookup Builder: create_connection_dict.                                 *)
(***************************************************************************)
EmptyDict == [k \in {} |-> ""]

\* Line 45 written as a setdefault: an entry, once made, is kept.
KeepFirst(result_dict, project_name, value) ==
    result_dict @@ (project_name :> value)

\* Line 45: result_dict[project_name] = row[column_name].
SetItem(result_dict, project_name, value) ==
    (project_name :> value) @@ result_dict

\* Lines 39-47.
create_connection_dict(df, column_name) ==
    LET loop[i \in 0..Len(df.rows)] ==
            IF i = 0 THEN EmptyDict
            ELSE IF df.rows[i].value.null THEN loop[i - 1]
            ELSE SetItem(loop[i - 1], df.rows[i].Nom, df.rows[i].value.v)
    IN  IF column_name \in df.columns THEN loop[Len(df.rows)] ELSE EmptyDict

(***************************************************************************)
(* Charge Calculator: calculate_charge_jh.  The objects the function works *)
(* on are named, so that a write through df_copy lands on the object that  *)
(* df_copy refers to.                                                      *)
(***************************************************************************)
\* Line 60 without the copy: df_copy is the caller's table.
df_alias(df) == [objects |-> [caller |-> df, copy |-> df], df_copy |-> "caller"]

\* Line 60: df_copy = df.copy().
df_copy(df) == [objects |-> [caller |-> df, copy |-> df], df_copy |-> "copy"]

\* Line 61 on one table: the column 'Charge JH' is added or overwritten;
\* hours / 8 is kept as the exact fraction, a missing value stays missing.
WithChargeJH(df) ==
    [columns |-> df.columns \cup {"Charge JH"},
     rows |-> [i \in 1..Len(df.rows) |->
                [df.rows[i] EXCEPT !.ChargeJH =
                    IF df.rows[i].Soumise.null THEN Null
                    ELSE Some([num |-> df.rows[i].Soumise.v, den |-> 8])]]]

\* Lines 60-62: the returned table, and the caller's table after the call.
calculate_charge_jh(df) ==
    LET mem == df_copy(df)
        objects == [mem.objects EXCEPT ![mem.df_copy] = WithChargeJH(@)]
    IN  [result |-> objects[mem.df_copy], df |-> objects.caller]

(***************************************************************************)
(* Inputs of the model.                                                    *)
(***************************************************************************)
ResourceNames == {<<"a">>, <<"b">>, <<>>, INDENT \o <<"a">>}

ProjectNames == {<<"p">>, <<"q">>}

PartialFns(K, V) == UNION {[S -> V] : S \in SUBSET K}

PivotRows ==
    [Ressource : ResourceNames, Projet : ProjectNames, ChargeJH : {1, 3},
     Montant : {Some(100)}, DerniereNote : {Some("note")}, Duree : {Null}]

ConnectionDicts == PartialFns(ProjectNames, {"Connexion Recette"})

PhaseDicts == PartialFns(ProjectNames, {"Connexion Recette", "Développement"})

\* Rule tables: one that holds a zero charge, one that lacks a pair.
RuleTables ==
    {(<<"Connexion EDI", "Recette utilisateur">> :> 0)
        @@ (<<"Connexion EDI", "Développement">> :> 2),
     (<<"Connexion EDI", "Développement">> :> 2)}

\* Tables that follow the row-kind encoding without coming from the builder:
\* resource rows, project rows, blank and missing text cells, in any order.
SummaryTexts == {<<"a">>, <<"b">>, INDENT \o <<"p">>, <<SP>>}

SummaryRows ==
    {[BlankRow EXCEPT !.RP = rp, !.ChargeTheorique = tc] :
        rp \in {Null} \cup {Some(t) : t \in SummaryTexts},
        tc \in {Null, Some(0), Some(3)}}

\* The tables of the year summary: the name and phase columns, and any of
\* the assignment date, creation date and last note columns.  The index
\* labels are those of a fresh table (0, 1, ...) or repeat.
OptionalColumns == {"Date d'affectation", "Date de création", "Dernière Note"}

DeploymentRows(columns) ==
    [index : {0},
     Nom : {<<"a">>, <<"b">>},
     PhaseDuProjet : {"Développement", "Go-live"},
     DateAffectation :
        IF "Date d'affectation" \in columns
        THEN {Null, Some(BadDate), Some(Date(2023)), Some(Date(2024))} ELSE {Null},
     DateCreation :
        IF "Date de création" \in columns THEN {Null, Some(Date(2025))} ELSE {Null},
     DerniereNote :
        IF "Dernière Note" \in columns THEN {Some("note")} ELSE {Null}]

IndexLabels(n) ==
    {[i \in 1..n |-> i - 1], [i \in 1..n |-> 0], [i \in 1..n |-> (n - i) % 2]}

DeploymentTable(columns, rows, labels) ==
    [columns |-> {"Nom", "Phase du projet"} \cup columns,
     rows |-> [i \in 1..Len(rows) |-> [rows[i] EXCEPT !.index = labels[i]]]]

PhasesChecked == {Null, Some(<<>>), Some(<<"Go-live">>)}

\* The tables of the lookup builder, with or without the target column.
LookupColumn == "Niveau de connexion"

LookupRows(columns) ==
    [Nom : ProjectNames,
     value : IF LookupColumn \in columns THEN {Null, Some("x"), Some("y")} ELSE {Null}]

\* The tables of the charge calculator, with or without a 'Charge JH' column
\* to overwrite.
HoursRows(columns) ==
    [Soumise : {Null, Some(0), Some(12)},
     ChargeJH : IF "Charge JH" \in columns THEN {Some([num |-> 8, den |-> 8])}
                ELSE {Null}]

(***************************************************************************)
(* State.                                                                  *)
(***************************************************************************)
VARIABLES
    pc,                   \* which call has returned
    pivot_df,             \* the caller's pivot table
    connection_dict,      \* the caller's lookup mappings
    phase_dict,
    montant_dict,
    rule_table,           \* the injected rule table
    resource_summary_df,  \* the table format_resource_summary returned
    charge_by_resource,   \* the table the reverse aggregator returned
    deployments_df,       \* the caller's project table
    phases_checked,       \* the caller's list of phases, or None
    year_summary,         \* what create_projects_by_month_summary returned
    lookup_df,            \* the caller's table for create_connection_dict
    result_dict,          \* the mapping create_connection_dict returned
    hours_df,             \* the caller's table for calculate_charge_jh
    charged_df            \* the table calculate_charge_jh returned

summaryVars == <<pivot_df, connection_dict, phase_dict, montant_dict, rule_table,
                 resource_summary_df, charge_by_resource>>

yearVars == <<deployments_df, phases_checked, year_summary>>

dictVars == <<lookup_df, result_dict>>

chargeVars == <<hours_df, charged_df>>

vars == <<pc, summaryVars, yearVars, dictVars, chargeVars>>

NoSummary ==
    /\ pivot_df = <<>>
    /\ connection_dict = <<>>
    /\ phase_dict = <<>>
    /\ montant_dict = <<>>
    /\ rule_table = <<>>
    /\ resource_summary_df = <<>>
    /\ charge_by_resource = <<>>

NoYear ==
    /\ deployments_df = [columns |-> {}, rows |-> <<>>]
    /\ phases_checked = Null
    /\ year_summary = EmptySummary

NoDict ==
    /\ lookup_df = [columns |-> {}, rows |-> <<>>]
    /\ result_dict = EmptyDict

NoCharge ==
    /\ hours_df = [columns |-> {}, rows |-> <<>>]
    /\ charged_df = [columns |-> {}, rows |-> <<>>]

InitPivot ==
    /\ pc = "pivot"
    /\ pivot_df \in SeqsUpTo(PivotRows, MaxPivotRows)
    /\ connection_dict \in ConnectionDicts
    /\ phase_dict \in PhaseDicts
    /\ montant_dict = <<>>
    /\ rule_table \in RuleTables
    /\ resource_summary_df = <<>>
    /\ charge_by_resource = <<>>
    /\ NoYear /\ NoDict /\ NoCharge

InitTable ==
    /\ pc = "table"
    /\ resource_summary_df \in SeqsUpTo(SummaryRows, MaxSummaryRows)
    /\ pivot_df = <<>>
    /\ connection_dict = <<>>
    /\ phase_dict = <<>>
    /\ montant_dict = <<>>
    /\ rule_table = <<>>
    /\ charge_by_resource = <<>>
    /\ NoYear /\ NoDict /\ NoCharge

InitDeployments ==
    /\ pc = "deployments"
    /\ \E columns \in SUBSET OptionalColumns, n \in 0..MaxDeploymentRows :
        \E rows \in [1..n -> DeploymentRows(columns)], labels \in IndexLabels(n) :
            deployments_df = DeploymentTable(columns, rows, labels)
    /\ phases_checked \in PhasesChecked
    /\ year_summary = EmptySummary
    /\ NoSummary /\ NoDict /\ NoCharge

InitLookup ==
    /\ pc = "lookup"
    /\ \E columns \in SUBSET {LookupColumn} :
        \E rows \in SeqsUpTo(LookupRows(columns), MaxLookupRows) :
            lookup_df = [columns |-> {"Nom"} \cup columns, rows |-> rows]
    /\ result_dict = EmptyDict
    /\ NoSummary /\ NoYear /\ NoCharge

InitHours ==
    /\ pc = "hours"
    /\ \E columns \in SUBSET {"Charge JH"} :
        \E rows \in SeqsUpTo(HoursRows(columns), MaxHoursRows) :
            hours_df = [columns |-> {"Soumise (h)"} \cup columns, rows |-> rows]
    /\ charged_df = [columns |-> {}, rows |-> <<>>]
    /\ NoSummary /\ NoYear /\ NoDict

Init == InitPivot \/ InitTable \/ InitDeployments \/ InitLookup \/ InitHours

FormatResourceSummary ==
    /\ pc = "pivot"
    /\ LET ret == format_resource_summary(pivot_df, connection_dict, phase_dict,
                                          montant_dict, rule_table)
       IN  /\ resource_summary_df' = ret.result_df
           /\ pivot_df' = ret.pivot_df
    /\ pc' = "summary"
    /\ UNCHANGED <<connection_dict, phase_dict, montant_dict, rule_table,
                   charge_by_resource, yearVars, dictVars, chargeVars>>

CreateTheoreticalChargeFromSummary ==
    /\ pc = "summary"
    /\ charge_by_resource' \in
            create_theoretical_charge_by_resource_from_summary(resource_summary_df)
    /\ pc' = "rollup"
    /\ UNCHANGED <<pivot_df, connection_dict, phase_dict, montant_dict, rule_table,
                   resource_summary_df, yearVars, dictVars, chargeVars>>

CreateTheoreticalChargeFromTable ==
    /\ pc = "table"
    /\ charge_by_resource' \in
            create_theoretical_charge_by_resource_from_summary(resource_summary_df)
    /\ pc' = "table_rollup"
    /\ UNCHANGED <<pivot_df, connection_dict, phase_dict, montant_dict, rule_table,
                   resource_summary_df, yearVars, dictVars, chargeVars>>

\* The selection of columns, the boolean filters and the sort of lines
\* 170-203 each build a new table, and every assignment is to one of those:
\* the caller's table and list are only read.
CreateProjectsByMonthSummary ==
    /\ pc = "deployments"
    /\ year_summary' = create_projects_by_month_summary(deployments_df, phases_checked)
    /\ pc' = "year_done"
    /\ UNCHANGED <<summaryVars, deployments_df, phases_checked, dictVars, chargeVars>>

\* The table is only read (lines 41-45).
CreateConnectionDict ==
    /\ pc = "lookup"
    /\ result_dict' = create_connection_dict(lookup_df, LookupColumn)
    /\ pc' = "dict_done"
    /\ UNCHANGED <<summaryVars, yearVars, lookup_df, chargeVars>>

CalculateChargeJH ==
    /\ pc = "hours"
    /\ LET ret == calculate_charge_jh(hours_df)
       IN  /\ charged_df' = ret.result
           /\ hours_df' = ret.df
    /\ pc' = "charge_done"
    /\ UNCHANGED <<summaryVars, yearVars, dictVars>>

Next ==
    \/ FormatResourceSummary
    \/ CreateTheoreticalChargeFromSummary
    \/ CreateTheoreticalChargeFromTable
    \/ CreateProjectsByMonthSummary
    \/ CreateConnectionDict
    \/ CalculateChargeJH

Spec == Init /\ [][Next]_vars

(***************************************************************************)
(* Properties of the hierarchical summary and of its reverse aggregation.  *)
(***************************************************************************)
Resources(pivot) == {pivot[i].Ressource : i \in 1..Len(pivot)}

RowsOfResource(pivot, resource) ==
    {i \in 1..Len(pivot) : pivot[i].Ressource = resource}

\* A row written by lines 369-381 (it carries a project's Charge JH).
IsEmittedProjectRow(row) == ~row.ChargeJH.null

\* The project a project row names: its text without the indent.
ProjectOfRow(row) == SubSeq(row.RP.v, Len(INDENT) + 1, Len(row.RP.v))

\* The theoretical charge of a project resolves: both mappings hold a
\* non-empty label for it and the rule table holds the canonical pair.
Resolves(project) ==
    /\ project \in DOMAIN connection_dict
    /\ project \in DOMAIN phase_dict
    /\ connection_dict[project] # ""
    /\ phase_dict[project] # ""
    /\ <<normalize_connection_level(connection_dict[project]).v,
         normalize_project_phase(phase_dict[project]).v>> \in DOMAIN rule_table

ResolvedValue(project) ==
    rule_table[<<normalize_connection_level(connection_dict[project]).v,
                 normalize_project_phase(phase_dict[project]).v>>]

\* The sum of the values of a function with a finite domain.
SumFn(f) ==
    LET sum[T \in SUBSET DOMAIN f] ==
            IF T = {} THEN 0
            ELSE LET x == CHOOSE y \in T : TRUE IN f[x] + sum[T \ {x}]
    IN  sum[DOMAIN f]

\* C1: round trip.  After the reverse aggregator has run on the builder's
\* output, there is exactly one result row per distinct resource of the
\* pivot; its project count is the number of pivot rows of the resource and
\* its sum is the sum of the theoretical charges the builder resolved for
\* the resource's projects.
C1_RoundTrip ==
    pc = "rollup" =>
        /\ Len(charge_by_resource) = Cardinality(Resources(pivot_df))
        /\ \A resource \in Resources(pivot_df) :
            \E i \in 1..Len(charge_by_resource) :
                /\ charge_by_resource[i].Ressource = resource
                /\ \A j \in 1..Len(charge_by_resource) :
                        charge_by_resource[j].Ressource = resource => j = i
                /\ charge_by_resource[i].NombreDeProjets =
                        Cardinality(RowsOfResource(pivot_df, resource))
                /\ charge_by_resource[i].SommeChargeTheorique =
                        SumFn([k \in RowsOfResource(pivot_df, resource) |->
                                IF Resolves(pivot_df[k].Projet)
                                THEN ResolvedValue(pivot_df[k].Projet)
                                ELSE 0])

\* C2: the builder's output has as many rows whose text starts with the
\* 4-space indent as the pivot has rows, and as many rows whose text does not
\* start with it as the pivot has distinct resources.
C2_RowCounts ==
    pc = "summary" =>
        /\ Cardinality({i \in 1..Len(resource_summary_df) :
                            StartsWith(CellText(resource_summary_df[i].RP), INDENT)})
                = Len(pivot_df)
        /\ Cardinality({i \in 1..Len(resource_summary_df) :
                            ~StartsWith(CellText(resource_summary_df[i].RP), INDENT)})
                = Cardinality(Resources(pivot_df))

\* C3: every project row of the builder's output whose theoretical charge
\* resolves carries that charge and the ecart, charge minus the row's Charge
\* JH; every other project row has both cells unset.
C3_TheoreticalChargeAndEcart ==
    pc = "summary" =>
        \A i \in 1..Len(resource_summary_df) :
            LET row == resource_summary_df[i] IN
            IsEmittedProjectRow(row) =>
                IF Resolves(ProjectOfRow(row))
                THEN /\ row.ChargeTheorique = Some(ResolvedValue(ProjectOfRow(row)))
                     /\ row.Ecart = Some(ResolvedValue(ProjectOfRow(row)) - row.ChargeJH.v)
                ELSE /\ row.ChargeTheorique = Null
                     /\ row.Ecart = Null

\* C3 witness: an output with a resolved project row, whose ecart is not 0,
\* and an unresolved one.
C3_Witness ==
    /\ pc = "summary"
    /\ \E i, j \in 1..Len(resource_summary_df) :
        /\ IsEmittedProjectRow(resource_summary_df[i])
        /\ Resolves(ProjectOfRow(resource_summary_df[i]))
        /\ resource_summary_df[i].Ecart # Some(0)
        /\ IsEmittedProjectRow(resource_summary_df[j])
        /\ ~Resolves(ProjectOfRow(resource_summary_df[j]))

\* The resource rows of a table, and the project rows each of them owns: the
\* project rows below it up to the next resource row.
ResourceRowsOf(df) == {i \in 1..Len(df) : IsResourceText(CellText(df[i].RP))}

OwnedProjectRows(df, i) ==
    {j \in (i + 1)..Len(df) :
        /\ IsProjectText(CellText(df[j].RP))
        /\ \A k \in (i + 1)..j : k \notin ResourceRowsOf(df)}

\* C8: the reverse aggregator returns exactly one row for every resource row
\* of its input (the last one, and those without project rows, included);
\* the row counts the project rows between that resource row and the next
\* one and sums their theoretical charges, so that every project row is
\* counted for the nearest resource row above it only.
C8_OneRowPerResourceRow ==
    pc \in {"rollup", "table_rollup"} =>
        /\ Len(charge_by_resource) = Cardinality(ResourceRowsOf(resource_summary_df))
        /\ \E owner \in [1..Len(charge_by_resource) -> ResourceRowsOf(resource_summary_df)] :
            /\ \A a, b \in 1..Len(charge_by_resource) : owner[a] = owner[b] => a = b
            /\ \A a \in 1..Len(charge_by_resource) :
                LET owned == OwnedProjectRows(resource_summary_df, owner[a]) IN
                /\ charge_by_resource[a].Ressource =
                        Strip(CellText(resource_summary_df[owner[a]].RP))
                /\ charge_by_resource[a].NombreDeProjets = Cardinality(owned)
                /\ charge_by_resource[a].SommeChargeTheorique =
                        SumFn([j \in owned |->
                                IF resource_summary_df[j].ChargeTheorique.null
                                THEN 0
                                ELSE resource_summary_df[j].ChargeTheorique.v])

\* C8 witness: a table whose last row is a project row of the last resource
\* and which holds a resource row without project rows has been aggregated.
C8_Witness ==
    /\ pc = "table_rollup"
    /\ Len(resource_summary_df) > 0
    /\ IsProjectText(CellText(resource_summary_df[Len(resource_summary_df)].RP))
    /\ \E a, b \in 1..Len(charge_by_resource) :
        /\ charge_by_resource[a].NombreDeProjets = 0
        /\ charge_by_resource[a].SommeChargeTheorique = 0
        /\ charge_by_resource[b].NombreDeProjets > 0

(***************************************************************************)
(* Properties of the year summary.                                         *)
(***************************************************************************)
\* The effective date of an input row: the assignment date when present,
\* otherwise the creation date when that column exists.
EffectiveDateOf(row) ==
    IF ~row.DateAffectation.null THEN row.DateAffectation
    ELSE IF "Date de création" \in deployments_df.columns THEN row.DateCreation
    ELSE Null

\* An input row that is to be reported: allowed phase, and an effective date
\* that is present and parses.
Qualifies(row) ==
    /\ row.PhaseDuProjet \in
            (IF phases_checked.null THEN DefaultPhases
             ELSE IF phases_checked.v = <<>> THEN DefaultPhases
             ELSE {phases_checked.v[i] : i \in 1..Len(phases_checked.v)})
    /\ ~EffectiveDateOf(row).null
    /\ EffectiveDateOf(row).v.valid

QualifyingRows ==
    {i \in 1..Len(deployments_df.rows) : Qualifies(deployments_df.rows[i])}

QualifyingOfYear(y) ==
    {i \in QualifyingRows : EffectiveDateOf(deployments_df.rows[i]).v.year = y}

\* Row i of the output opens its year group.
OpensGroup(rows, i) ==
    i = 1 \/ rows[i - 1].effective_year # rows[i].effective_year

\* C4: in the year summary the rows are ordered by year and, within a year,
\* by project name; the first row of every year carries the year and the
\* number of filtered-and-dated rows of that year, and every later row of
\* the year has year and count blank, whatever the index labels of the input.
C4_YearGroups ==
    pc = "year_done" /\ year_summary.raised = "" =>
        LET rows == year_summary.rows IN
        /\ \A i \in 1..Len(rows), j \in 1..Len(rows) :
            i < j =>
                /\ rows[i].effective_year <= rows[j].effective_year
                /\ rows[i].effective_year = rows[j].effective_year =>
                        ~StrLess(rows[j].NomDuProjet, rows[i].NomDuProjet)
        /\ \A i \in 1..Len(rows) :
            IF OpensGroup(rows, i)
            THEN /\ rows[i].Annee = Some(rows[i].effective_year)
                 /\ rows[i].NombreDeProjets =
                        Some(Cardinality(QualifyingOfYear(rows[i].effective_year)))
            ELSE /\ rows[i].Annee = Blank
                 /\ rows[i].NombreDeProjets = Blank

\* C5: every row of the year summary dated 2024 or 2025 has a blank project
\* name and a blank last note, wherever it stands in its group; every row of
\* another year carries the name and note of an input row of that year.
C5_SuppressedYears ==
    pc = "year_done" /\ year_summary.raised = "" =>
        \A i \in 1..Len(year_summary.rows) :
            LET row == year_summary.rows[i] IN
            IF row.effective_year \in {2024, 2025}
            THEN row.NomDuProjet = <<>> /\ row.DerniereNote = Some("")
            ELSE \E k \in QualifyingOfYear(row.effective_year) :
                    /\ deployments_df.rows[k].index = row.index
                    /\ deployments_df.rows[k].Nom = row.NomDuProjet
                    /\ deployments_df.rows[k].DerniereNote = row.DerniereNote

\* C5 witness: a summary in which a row of 2024 or 2025 opens its group and
\* a row of another year keeps its name.
C5_Witness ==
    /\ pc = "year_done"
    /\ \E i, j \in 1..Len(year_summary.rows) :
        /\ year_summary.rows[i].effective_year = 2025
        /\ year_summary.rows[i].Annee = Some(2025)
        /\ year_summary.rows[i].NomDuProjet = <<>>
        /\ year_summary.rows[j].effective_year = 2023
        /\ year_summary.rows[j].NomDuProjet # <<>>

\* C6: for a table with the assignment date column, the year summary holds
\* one row for an input row if and only if the input row qualifies, in the
\* group of the year of its effective date: for every year, as many output
\* rows as qualifying input rows.
C6_RowsEmitted ==
    pc = "year_done" /\ "Date d'affectation" \in deployments_df.columns =>
        /\ Len(year_summary.rows) = Cardinality(QualifyingRows)
        /\ \A y \in {2023, 2024, 2025} :
            Cardinality({i \in 1..Len(year_summary.rows) :
                            year_summary.rows[i].effective_year = y})
                = Cardinality(QualifyingOfYear(y))

\* C9: for a table with the name, assignment date and phase columns the
\* year summary does not raise, with or without the creation date and last
\* note columns; without the assignment date column it is the empty table.
C9_NeverRaises ==
    pc = "year_done" =>
        /\ year_summary.raised = ""
        /\ "Date d'affectation" \notin deployments_df.columns =>
                year_summary.rows = <<>>

(***************************************************************************)
(* Properties of the lookup builder.                                       *)
(***************************************************************************)
\* The rows of a name that hold a value.
ValuedRows(name) ==
    {i \in 1..Len(lookup_df.rows) :
        lookup_df.rows[i].Nom = name /\ ~lookup_df.rows[i].value.null}

NamesWithValue == {name \in ProjectNames : ValuedRows(name) # {}}

FirstOf(S) == CHOOSE i \in S : \A j \in S : i <= j

LastOf(S) == CHOOSE i \in S : \A j \in S : i >= j

\* C7 as stated: the mapping holds, for every name, the value of the first
\* row of that name whose value is not null; names without such a row have
\* no entry, and without the target column the mapping is empty.
C7_FirstNonNullWins ==
    pc = "dict_done" =>
        IF LookupColumn \notin lookup_df.columns THEN result_dict = EmptyDict
        ELSE /\ DOMAIN result_dict = NamesWithValue
             /\ \A name \in NamesWithValue :
                    result_dict[name] = lookup_df.rows[FirstOf(ValuedRows(name))].value.v

\* C7 as amended: the mapping holds, for every name, the value of the last
\* row of that name whose value is not null.
C7_LastNonNullWins ==
    pc = "dict_done" =>
        IF LookupColumn \notin lookup_df.columns THEN result_dict = EmptyDict
        ELSE /\ DOMAIN result_dict = NamesWithValue
             /\ \A name \in NamesWithValue :
                    result_dict[name] = lookup_df.rows[LastOf(ValuedRows(name))].value.v

\* C7 witness: a name with two different values, and a null row after them,
\* has been mapped.
C7_Witness ==
    /\ pc = "dict_done"
    /\ \E i, j, k \in 1..Len(lookup_df.rows) :
        /\ i < j /\ j < k
        /\ lookup_df.rows[i].Nom = lookup_df.rows[j].Nom
        /\ lookup_df.rows[j].Nom = lookup_df.rows[k].Nom
        /\ ~lookup_df.rows[i].value.null
        /\ ~lookup_df.rows[j].value.null
        /\ lookup_df.rows[i].value # lookup_df.rows[j].value
        /\ lookup_df.rows[k].value.null
        /\ result_dict[lookup_df.rows[j].Nom] = lookup_df.rows[j].value.v

(***************************************************************************)
(* Frame.                                                                  *)
(***************************************************************************)
\* C10: no call changes what its caller passed in: the tables and the
\* mappings are the same after every step as before it (the summary table
\* is an input of the reverse aggregator only).
C10_InputsUnchanged ==
    [][ /\ pivot_df' = pivot_df
        /\ connection_dict' = connection_dict
        /\ phase_dict' = phase_dict
        /\ montant_dict' = montant_dict
        /\ deployments_df' = deployments_df
        /\ phases_checked' = phases_checked
        /\ lookup_df' = lookup_df
        /\ hours_df' = hours_df
        /\ pc \in {"summary", "table"} => resource_summary_df' = resource_summary_df
      ]_vars

\* C10 witness: calculate_charge_jh has returned a table with the new column
\* for a table that does not have it.
C10_Witness ==
    /\ pc = "charge_done"
    /\ "Charge JH" \notin hours_df.columns
    /\ "Charge JH" \in charged_df.columns
    /\ \E i \in 1..Len(charged_df.rows) : ~charged_df.rows[i].ChargeJH.null

(***************************************************************************)
(* Structure of the hierarchical summary, read from the text column as a   *)
(* reader of the table reads it.                                           *)
(***************************************************************************)
IndentedRows(df) ==
    {i \in 1..Len(df) : StartsWith(CellText(df[i].RP), INDENT)}

UnindentedRows(df) == (1..Len(df)) \ IndentedRows(df)

UnindentedAbove(df, i) == {j \in UnindentedRows(df) : j < i}

\* The text of the nearest unindented row above row i.
OwnerText(df, i) == CellText(df[LastOf(UnindentedAbove(df, i))].RP)

\* What an indented row says: its owner, its project and its Charge JH.
TripleOfRow(df, i) == <<OwnerText(df, i), ProjectOfRow(df[i]), df[i].ChargeJH>>

TripleOfPivotRow(row) == <<row.Ressource, row.Projet, Some(row.ChargeJH)>>

\* Pairs of names in ascending order, as sort_values orders them.
PairNotAfter(r1, p1, r2, p2) ==
    StrLess(r1, r2) \/ (r1 = r2 /\ ~StrLess(p2, p1))

\* C11: in the builder's output the project rows are in ascending
\* (resource, project) order; the nearest unindented row above a project row
\* names the resource that owns the project in the pivot; a resource row
\* stands immediately before the first project row of its resource; and its
\* 'Somme de Charge JH' is the sum of Charge JH over the pivot rows of the
\* resource.
C11_HierarchyAndTotals ==
    pc = "summary" =>
        LET df == resource_summary_df IN
        /\ \A i \in IndentedRows(df) : UnindentedAbove(df, i) # {}
        /\ \A i, j \in IndentedRows(df) :
            i < j => PairNotAfter(OwnerText(df, i), ProjectOfRow(df[i]),
                                  OwnerText(df, j), ProjectOfRow(df[j]))
        /\ \A i \in IndentedRows(df) :
            Cardinality({j \in IndentedRows(df) : TripleOfRow(df, j) = TripleOfRow(df, i)})
                = Cardinality({k \in 1..Len(pivot_df) :
                                TripleOfPivotRow(pivot_df[k]) = TripleOfRow(df, i)})
        /\ Cardinality(IndentedRows(df)) = Len(pivot_df)
        /\ \A j \in UnindentedRows(df) :
            /\ j + 1 \in IndentedRows(df)
            /\ \A i \in IndentedRows(df) : i < j => OwnerText(df, i) # CellText(df[j].RP)
            /\ df[j].SommeChargeJH =
                    Some(SumFn([k \in RowsOfResource(pivot_df, CellText(df[j].RP)) |->
                                    pivot_df[k].ChargeJH]))

====
